---------------------------- MODULE Spec2Model ----------------------------
(***************************************************************************)
(* Transcript segmentation and highlight selection pipeline.               *)
(*                                                                         *)
(*   process-topics-bedrock/lambda_function.py                             *)
(*       create_timestamped_script    the Sentence Reconstitutor           *)
(*       extract_and_process_section  the Highlight Selector               *)
(*       process_topic                the Selector's store write           *)
(*   extract-timeframe/lambda_function.py                                  *)
(*       convert_seconds_to_timecode, lambda_handler                       *)
(*                                    the Timeframe Consolidator           *)
(*                                                                         *)
(* Representation.                                                         *)
(*   - A Python str is a sequence of one-token strings: the word "a" is    *)
(*     <<"a">>, "a. b" is <<"a", ".", " ", "b">>.  Transcript words are    *)
(*     drawn from an alphabet without spaces, punctuation or brackets.     *)
(*   - A Python float of seconds is an integer number of ticks,            *)
(*     TicksPerSecond ticks to the second.  TicksPerSecond is a power of   *)
(*     two, so every modelled time is a dyadic rational and the float      *)
(*     arithmetic of the code (-, sum, divmod, * 24) is exact on it.       *)
(*   - Python None, where a time is expected, is the value None (-1);      *)
(*     times are never negative.                                           *)
(***************************************************************************)
EXTENDS Integers, Sequences, FiniteSets

(***************************************************************************)
(* Bounds of the model.                                                    *)
(***************************************************************************)
\* longest transcript, in items, given to the Reconstitutor
MaxItems == 4
\* sentences of the scripts given to the merge
MaxSentences == 5
\* longest selected_numbers list of a model answer
MaxNumbers == 3
\* invocations of the Selector for one event (the first and its re-runs)
MaxCalls == 2
\* Segments of a stored Highlight given to the Consolidator
MaxSegments == 2
\* invocations of the Consolidator
MaxConsCalls == 2
\* Sentences of a script handed from the Selector to the Consolidator
MaxPipeSentences == 3
\* throttled invocations before the answer, in each of the concurrent Selectors
MaxThrottles == 1

\* ticks to the second
TicksPerSecond == 64
Sec(n) == n * TicksPerSecond

(***************************************************************************)
(* Generic helpers.                                                        *)
(***************************************************************************)
None == -1

Range(s) == { s[k] : k \in 1..Len(s) }

SeqsUpTo(S, n) == UNION { [1..k -> S] : k \in 0..n }

RECURSIVE Join(_, _)
\* sep.join(parts) of Python: parts are strings, sep a string
Join(sep, parts) ==
    IF parts = << >> THEN << >>
    ELSE IF Len(parts) = 1 THEN parts[1]
    ELSE parts[1] \o sep \o Join(sep, Tail(parts))

(***************************************************************************)
(* Sentence Reconstitutor: create_timestamped_script.                      *)
(***************************************************************************)
VARIABLES
    items,                \* transcript_json['results']['items']
    pos,                  \* number of items the for loop has consumed
    current_sentence,     \* sequence of words, each a string
    sentence_start_time,
    last_end_time,
    timestamped_script,   \* the Sentences emitted so far
    rpc                   \* "idle" | "loop" | "done"

reconVars == << items, pos, current_sentence, sentence_start_time,
                last_end_time, timestamped_script, rpc >>

Words == { <<"a">>, <<"b">> }
Terminators == { <<".">>, <<"?">>, <<"!">> }
Punctuations == Terminators \cup { <<",">> }

Pronunciation(w, s, e) ==
    [type |-> "pronunciation", content |-> w, start_time |-> s, end_time |-> e]
Punctuation(p) ==
    [type |-> "punctuation", content |-> p, start_time |-> None, end_time |-> None]

\* word times of the transcripts given to the Reconstitutor, in ticks
WordTimes == {0, 1}

\* every Word has start_time <= end_time; the times of successive Words are
\* in no particular order
WordItems ==
    { it \in { Pronunciation(w, s, e) : w \in Words,
                                        s \in WordTimes, e \in WordTimes } :
          it.start_time <= it.end_time }
PunctuationItems == { Punctuation(p) : p \in Punctuations }
TranscriptItems == WordItems \cup PunctuationItems

Sentence(text, s, e) == [text |-> text, start_time |-> s, end_time |-> e]

\* the loop state of create_timestamped_script
ReconState(cs, sst, let, ts) ==
    [current_sentence |-> cs, sentence_start_time |-> sst,
     last_end_time |-> let, timestamped_script |-> ts]

ReconInit == ReconState(<< >>, None, None, << >>)

\* current_sentence[-1] += punctuation, guarded by `if current_sentence`
AppendToLast(cs, p) ==
    IF cs = << >> THEN cs
    ELSE [cs EXCEPT ![Len(cs)] = cs[Len(cs)] \o p]

\* one iteration of `for item in items`
ReconStep(st, item) ==
    IF item.type = "pronunciation" THEN
        ReconState(Append(st.current_sentence, item.content),
                   IF st.sentence_start_time = None
                       THEN item.start_time ELSE st.sentence_start_time,
                   item.end_time,
                   st.timestamped_script)
    ELSE IF item.type = "punctuation" THEN
        LET cs == AppendToLast(st.current_sentence, item.content) IN
        IF item.content \in Terminators THEN
            ReconState(<< >>, None, st.last_end_time,
                       Append(st.timestamped_script,
                              Sentence(Join(<<" ">>, cs),
                                       st.sentence_start_time,
                                       st.last_end_time)))
        ELSE
            ReconState(cs, st.sentence_start_time, st.last_end_time,
                       st.timestamped_script)
    ELSE st

\* a faulty variant of ReconFlush: the words left over are dropped
ReconFlushFaulty(st) == st.timestamped_script
\* the code after the loop: the words left over become a last Sentence
ReconFlush(st) ==
    IF st.current_sentence # << >> /\ st.sentence_start_time # None THEN
        Append(st.timestamped_script,
               Sentence(Join(<<" ">>, st.current_sentence),
                        st.sentence_start_time, st.last_end_time))
    ELSE st.timestamped_script

RECURSIVE ReconLoop(_, _)
ReconLoop(st, its) ==
    IF its = << >> THEN st ELSE ReconLoop(ReconStep(st, Head(its)), Tail(its))

\* the whole function
create_timestamped_script(its) == ReconFlush(ReconLoop(ReconInit, its))

CurrentReconState ==
    ReconState(current_sentence, sentence_start_time, last_end_time,
               timestamped_script)

ReconIterate ==
    /\ rpc = "loop"
    /\ pos < Len(items)
    /\ LET st == ReconStep(CurrentReconState, items[pos + 1]) IN
        /\ current_sentence' = st.current_sentence
        /\ sentence_start_time' = st.sentence_start_time
        /\ last_end_time' = st.last_end_time
        /\ timestamped_script' = st.timestamped_script
    /\ pos' = pos + 1
    /\ UNCHANGED << items, rpc >>

ReconReturn ==
    /\ rpc = "loop"
    /\ pos = Len(items)
    /\ timestamped_script' = ReconFlush(CurrentReconState)
    /\ rpc' = "done"
    /\ UNCHANGED << items, pos, current_sentence, sentence_start_time,
                    last_end_time >>

(***************************************************************************)
(* Highlight Selector: extract_and_process_section.                        *)
(*                                                                         *)
(* A JSON value of the model's selected_numbers list is a record: kind     *)
(* names its JSON type as json.loads returns it; an int or bool carries    *)
(* num, a float the fraction num / den, a str its characters.              *)
(***************************************************************************)
JInt(n) == [kind |-> "int", num |-> n, den |-> 1, str |-> << >>]
JFloat(n, d) == [kind |-> "float", num |-> n, den |-> d, str |-> << >>]
JStr(t) == [kind |-> "str", num |-> 0, den |-> 1, str |-> t]
JBool(b) == [kind |-> "bool", num |-> IF b THEN 1 ELSE 0, den |-> 1, str |-> << >>]
\* json.loads reads 1e999 and Infinity as float('inf'), NaN as float('nan')
JInf == [kind |-> "inf", num |-> 0, den |-> 1, str |-> << >>]
JNaN == [kind |-> "nan", num |-> 0, den |-> 1, str |-> << >>]
JNull == [kind |-> "null", num |-> 0, den |-> 1, str |-> << >>]

DigitChars == << "0", "1", "2", "3", "4", "5", "6", "7", "8", "9" >>
IsDigit(c) == c \in Range(DigitChars)
DigitValue(c) == (CHOOSE k \in 1..10 : DigitChars[k] = c) - 1

RECURSIVE LStrip(_)
LStrip(t) == IF t # << >> /\ Head(t) = " " THEN LStrip(Tail(t)) ELSE t
RECURSIVE RStrip(_)
RStrip(t) ==
    IF t # << >> /\ t[Len(t)] = " " THEN RStrip(SubSeq(t, 1, Len(t) - 1)) ELSE t
\* str.strip()
Strip(t) == RStrip(LStrip(t))

\* the strings int() reads, among those over digits, letters, '.' and ' '
IsIntLiteral(t) == t # << >> /\ \A k \in 1..Len(t) : IsDigit(t[k])
RECURSIVE DecimalValue(_)
DecimalValue(t) ==
    IF t = << >> THEN 0
    ELSE 10 * DecimalValue(SubSeq(t, 1, Len(t) - 1)) + DigitValue(t[Len(t)])

\* int(x) of a float: truncation towards zero
TruncDiv(n, d) == IF n >= 0 THEN n \div d ELSE -((-n) \div d)

\* lines 205-209: the conversion of one element.  outcome is "ok" with the
\* integer, or the exception int() raises.
CoerceInt(num) ==
    CASE num.kind = "str" ->
            (IF IsIntLiteral(Strip(num.str))
                THEN [outcome |-> "ok", val |-> DecimalValue(Strip(num.str))]
                ELSE [outcome |-> "ValueError", val |-> 0])
      [] num.kind \in {"int", "bool"} -> [outcome |-> "ok", val |-> num.num]
      [] num.kind = "float" ->
            [outcome |-> "ok", val |-> TruncDiv(num.num, num.den)]
      [] num.kind = "nan" -> [outcome |-> "ValueError", val |-> 0]
      [] num.kind = "inf" -> [outcome |-> "OverflowError", val |-> 0]
      [] OTHER -> [outcome |-> "TypeError", val |-> 0]

\* line 212
InRange(num, n) == 1 <= num /\ num <= n

\* lines 200-217: the loop over raw_numbers; `except (ValueError, TypeError)`
\* drops the element, any other exception leaves the loop and the function
RECURSIVE ValidateLoop(_, _, _)
ValidateLoop(raw, n, valid) ==
    IF raw = << >> THEN [error |-> "", valid_numbers |-> valid]
    ELSE LET c == CoerceInt(Head(raw)) IN
         IF c.outcome = "ok" THEN
             ValidateLoop(Tail(raw), n,
                          IF InRange(c.val, n) THEN Append(valid, c.val)
                                               ELSE valid)
         ELSE IF c.outcome \in {"ValueError", "TypeError"} THEN
             ValidateLoop(Tail(raw), n, valid)
         ELSE [error |-> c.outcome, valid_numbers |-> valid]

ValidateNumbers(raw, n) == ValidateLoop(raw, n, << >>)

\* list.sort() of a list of ints
RECURSIVE InsertSorted(_, _)
InsertSorted(x, sorted) ==
    IF sorted = << >> THEN << x >>
    ELSE IF x < Head(sorted) THEN << x >> \o sorted
    ELSE << Head(sorted) >> \o InsertSorted(x, Tail(sorted))
RECURSIVE SortNumbers(_)
SortNumbers(nums) ==
    IF nums = << >> THEN << >>
    ELSE InsertSorted(nums[Len(nums)], SortNumbers(SubSeq(nums, 1, Len(nums) - 1)))


\* a Segment has the shape of a Sentence
Segment(text, s, e) == Sentence(text, s, e)

\* the loop state of the merge, lines 229-233
MergeState(ts, tf, cs, s, e, err) ==
    [text_segments |-> ts, timeframes |-> tf, current_segment |-> cs,
     current_start |-> s, current_end |-> e, error |-> err]

MergeInit == MergeState(<< >>, << >>, << >>, None, None, "")

\* line 240: valid[i] does not continue the run of valid[i-1]
IsBoundary(valid, i) == i > 1 /\ valid[i] # valid[i - 1] + 1

\* lines 242-251 and 260-266: close the Segment being built, if any
CloseSegment(st) ==
    IF st.current_segment # << >> THEN
        MergeState(Append(st.text_segments, Join(<<" ">>, st.current_segment)),
                   Append(st.timeframes,
                          Segment(Join(<<" ">>, st.current_segment),
                                  st.current_start, st.current_end)),
                   << >>, None, None, st.error)
    ELSE st

\* lines 254-255; `None < float` raises TypeError
StartRaises(cur, t) == cur # None /\ t = None
\* a faulty variant of NewStart: the start of the run's first Sentence is kept
NewStartFaulty(cur, t) == IF cur = None THEN t ELSE cur
\* lines 254-255: the least start of the run
NewStart(cur, t) == IF cur = None \/ t < cur THEN t ELSE cur

\* lines 256-257
EndRaises(cur, t) == cur # None /\ t = None
NewEnd(cur, t) == IF cur = None \/ t > cur THEN t ELSE cur

\* one iteration of `for i, num in enumerate(valid_numbers)`; i is 1-based
MergeStep(st, valid, i, script) ==
    LET sentence == script[valid[i]]
        st1 == IF IsBoundary(valid, i) THEN CloseSegment(st) ELSE st
    IN  IF \/ StartRaises(st1.current_start, sentence.start_time)
           \/ EndRaises(st1.current_end, sentence.end_time)
        THEN [st1 EXCEPT !.error = "TypeError"]
        ELSE MergeState(st1.text_segments, st1.timeframes,
                        Append(st1.current_segment, sentence.text),
                        NewStart(st1.current_start, sentence.start_time),
                        NewEnd(st1.current_end, sentence.end_time),
                        st1.error)

RECURSIVE MergeLoop(_, _, _, _)
MergeLoop(st, valid, i, script) ==
    IF i > Len(valid) \/ st.error # "" THEN st
    ELSE MergeLoop(MergeStep(st, valid, i, script), valid, i + 1, script)

\* lines 229-266
Merge(valid, script) ==
    LET st == MergeLoop(MergeInit, valid, 1, script)
    IN  IF st.error # "" THEN st ELSE CloseSegment(st)

\* the literal ' [...] ' of line 269
Separator == << " ", "[...]", " " >>

\* a faulty variant of FinalText: the Segments are joined with a space
FinalTextFaulty(text_segments) == Join(<<" ">>, text_segments)
\* line 269
FinalText(text_segments) == Join(Separator, text_segments)

(***************************************************************************)
(* The model's answer.  response_text is a string over the characters "x"  *)
(* (commentary), "{", "}" and "J", which stands for the body of the JSON   *)
(* object the answer carries; chunk is what json.loads makes of that       *)
(* object.                                                                 *)
(***************************************************************************)
Chunk(has, nums, title) ==
    [has_selected_numbers |-> has, selected_numbers |-> nums, VideoTitle |-> title]

\* str.find and str.rfind, 1-based; 0 when the character is absent
Find(t, c) ==
    IF \E k \in 1..Len(t) : t[k] = c
        THEN CHOOSE k \in 1..Len(t) : t[k] = c /\ \A j \in 1..(k - 1) : t[j] # c
        ELSE 0
RFind(t, c) ==
    IF \E k \in 1..Len(t) : t[k] = c
        THEN CHOOSE k \in 1..Len(t) : t[k] = c /\ \A j \in (k + 1)..Len(t) : t[j] # c
        ELSE 0

\* lines 188-191: response_text[firstIndex:endIndex+1].  With '{' absent the
\* slice starts at the last character, with '}' absent it ends at index 0:
\* either way it is no JSON object.
BraceSlice(t) ==
    LET firstIndex == Find(t, "{")
        endIndex == RFind(t, "}")
    IN  IF firstIndex = 0 \/ endIndex = 0 \/ endIndex < firstIndex THEN << >>
        ELSE SubSeq(t, firstIndex, endIndex)

\* json.loads succeeds on exactly the one object
ParsesAsJSON(t) == t = << "{", "J", "}" >>

NoResult == [text |-> << >>, timeframes |-> << >>, VideoTitle |-> << >>]

Outcome(status, err, raw, valid, res) ==
    [status |-> status, error |-> err, raw_numbers |-> raw,
     valid_numbers |-> valid, result |-> res]

\* a faulty variant of NoValidNumbers: an empty list is let through
NoValidNumbersFaulty(valid) == FALSE
\* line 220
NoValidNumbers(valid) == valid = << >>

\* lines 183-280: what the try block does with the text of an answer
ProcessResponse(response_text, chunk, script) ==
    IF ~ParsesAsJSON(BraceSlice(response_text)) THEN
        Outcome("raised", "JSONDecodeError", << >>, << >>, NoResult)
    ELSE IF ~chunk.has_selected_numbers THEN
        Outcome("raised", "ValueError", << >>, << >>, NoResult)
    ELSE
        LET raw == chunk.selected_numbers
            v == ValidateNumbers(raw, Len(script))
        IN  IF v.error # "" THEN
                Outcome("raised", v.error, raw, v.valid_numbers, NoResult)
            ELSE IF NoValidNumbers(v.valid_numbers) THEN
                Outcome("raised", "ValueError", raw, v.valid_numbers, NoResult)
            ELSE
                LET sorted == SortNumbers(v.valid_numbers)
                    m == Merge(sorted, script)
                IN  IF m.error # "" THEN
                        Outcome("raised", m.error, raw, sorted, NoResult)
                    ELSE
                        Outcome("returned", "", raw, sorted,
                                [text |-> FinalText(m.text_segments),
                                 timeframes |-> m.timeframes,
                                 VideoTitle |-> chunk.VideoTitle])


(***************************************************************************)
(* The Selector's invocation: lambda_handler, process_topic and the retry  *)
(* loop of extract_and_process_section.                                    *)
(***************************************************************************)
VARIABLES
    event,          \* the invocation's event: uuid, index, topic, owner
    bedrock,        \* what the model transport does in a call: the first
                    \* `throttles` invocations raise ThrottlingException, the
                    \* next raises another ClientError (client_error) or
                    \* returns response_text, which carries chunk
    calls,          \* invocations of the Selector so far
    invocations,    \* bedrock.invoke_model calls made in this call
    retry_count,
    sleeps,         \* the sleep_time of every time.sleep of this call
    raw_numbers,
    valid_numbers,
    section_data,   \* the result returned to process_topic
    sel_error,      \* the exception that left the call, "" when none
    spc,            \* "invoke" | "returned" | "stored" | "raised"
    now,            \* the clock read at line 107
    store           \* the highlight table: key -> item

selVars == << event, bedrock, calls, invocations, retry_count, sleeps,
              raw_numbers, valid_numbers, section_data, sel_error, spc, now >>

max_retries == 30
max_backoff == 16

Min(a, b) == IF a <= b THEN a ELSE b

\* a faulty variant of Backoff: the delay is not capped
BackoffFaulty(retry) == 2 ^ (retry - 1)
\* line 285, for the value of retry_count after line 284
Backoff(retry) == Min(2 ^ (retry - 1), max_backoff)

Indexes == { "0", "1" }
\* a faulty variant of Key: the index is no part of the key
KeyFaulty(uuid, index) == << uuid, "0" >>
\* the key of an item: VideoName and Index (extract-timeframe, line 40)
Key(uuid, index) == << uuid, index >>
Keys == { Key("clip", i) : i \in Indexes }
NoItem == [absent |-> TRUE]

\* json.dumps of a list of dicts: each dict the sequence of its (key, value)
\* pairs, in insertion order
Pair(k, v) == [key |-> k, value |-> v]
TimeToJSON(t) == IF t = None THEN JNull ELSE JFloat(t, TicksPerSecond)
DumpSegment(seg) ==
    << Pair("text", JStr(seg.text)),
       Pair("start_time", TimeToJSON(seg.start_time)),
       Pair("end_time", TimeToJSON(seg.end_time)) >>
DumpSegments(segs) == [k \in 1..Len(segs) |-> DumpSegment(segs[k])]

\* lines 109-118; duration is None until the Consolidator sets it
Highlight(data, ev, timestamp) ==
    [Text |-> data.text, Question |-> ev.topic, Index |-> ev.index,
     VideoName |-> ev.uuid, createdAt |-> timestamp, updatedAt |-> timestamp,
     owner |-> ev.owner, timeframes |-> DumpSegments(data.timeframes),
     duration |-> None]

\* the transport is throttling the next invocation of this call
Throttling == invocations < bedrock.throttles

\* e.response['Error']['Code'] of the ClientError the next invocation raises,
\* "" when it raises none
ErrorCodeOf(transport, invoked) ==
    IF invoked < transport.throttles THEN "ThrottlingException"
    ELSE IF transport.client_error THEN "ClientError"
    ELSE ""

ErrorCode == ErrorCodeOf(bedrock, invocations)

\* a faulty variant of Retried: the retries are not counted against the ceiling
RetriedNoCeiling(code, retry) == code = "ThrottlingException"
\* a faulty variant of Retried: every ClientError is retried
RetriedAnyError(code, retry) == retry < max_retries
\* line 283: the ClientError is retried
Retried(code, retry) == code = "ThrottlingException" /\ retry < max_retries

\* lines 282-288: ThrottlingException with retries left: count, sleep, loop
SelThrottled ==
    /\ spc = "invoke"
    /\ ErrorCode # ""
    /\ Retried(ErrorCode, retry_count)
    /\ invocations' = invocations + 1
    /\ retry_count' = retry_count + 1
    /\ sleeps' = Append(sleeps, Backoff(retry_count + 1))
    /\ UNCHANGED << event, bedrock, calls, raw_numbers, valid_numbers,
                    section_data, sel_error, spc, now, store >>

\* lines 289-291: ThrottlingException with no retry left is raised
SelThrottledOut ==
    /\ spc = "invoke"
    /\ Throttling
    /\ ~Retried(ErrorCode, retry_count)
    /\ invocations' = invocations + 1
    /\ sel_error' = "ThrottlingException"
    /\ spc' = "raised"
    /\ UNCHANGED << event, bedrock, calls, retry_count, sleeps, raw_numbers,
                    valid_numbers, section_data, now, store >>

\* lines 289-291: any other ClientError is raised
SelClientError ==
    /\ spc = "invoke"
    /\ ~Throttling
    /\ bedrock.client_error
    /\ ~Retried(ErrorCode, retry_count)
    /\ invocations' = invocations + 1
    /\ sel_error' = "ClientError"
    /\ spc' = "raised"
    /\ UNCHANGED << event, bedrock, calls, retry_count, sleeps, raw_numbers,
                    valid_numbers, section_data, now, store >>

\* lines 182-280: the model answers; the answer is parsed, validated, merged
SelResponse ==
    /\ spc = "invoke"
    /\ ~Throttling
    /\ ~bedrock.client_error
    /\ invocations' = invocations + 1
    /\ LET out == ProcessResponse(bedrock.response_text, bedrock.chunk,
                                  timestamped_script)
       IN  /\ raw_numbers' = out.raw_numbers
           /\ valid_numbers' = out.valid_numbers
           /\ section_data' = out.result
           /\ sel_error' = out.error
           /\ spc' = out.status
    /\ UNCHANGED << event, bedrock, calls, retry_count, sleeps, now, store >>

\* process_topic, lines 107-122
SelPutItem ==
    /\ spc = "returned"
    /\ store' = [store EXCEPT ![Key(event.uuid, event.index)] =
                     Highlight(section_data, event, now)]
    /\ now' = now + 1
    /\ spc' = "stored"
    /\ UNCHANGED << event, bedrock, calls, invocations, retry_count, sleeps,
                    raw_numbers, valid_numbers, section_data, sel_error >>

\* the orchestrator runs the failed invocation again, with the same event:
\* lines 176-178 and 200 start the call's state afresh
SelRetryCall ==
    /\ spc = "raised"
    /\ calls < MaxCalls
    /\ calls' = calls + 1
    /\ invocations' = 0
    /\ retry_count' = 0
    /\ sleeps' = << >>
    /\ raw_numbers' = << >>
    /\ valid_numbers' = << >>
    /\ section_data' = NoResult
    /\ sel_error' = ""
    /\ spc' = "invoke"
    /\ UNCHANGED << event, bedrock, now, store >>

(***************************************************************************)
(* The inputs of the Selector.                                             *)
(***************************************************************************)
\* two Sentences whose times are out of order when SentA precedes SentB
SentA == Sentence(<< "b", "?" >>, Sec(90), Sec(120))
SentB == Sentence(<< "a", "." >>, Sec(10), Sec(40))
\* the Sentence a terminator emits when no word is accumulated
EmptySentences == { Sentence(<< >>, None, e) : e \in { None, Sec(120), Sec(40) } }

\* what create_timestamped_script can return: a Sentence without words has
\* no start_time, and the end_time of the Sentence before it (None if first)
ReconReachable(script) ==
    \A k \in 1..Len(script) :
        IF script[k].text = << >>
            THEN /\ script[k].start_time = None
                 /\ script[k].end_time =
                        (IF k = 1 THEN None ELSE script[k - 1].end_time)
            ELSE script[k].start_time # None /\ script[k].end_time # None

MergeScripts ==
    { sc \in [1..MaxSentences -> { SentA, SentB } \cup EmptySentences] :
          ReconReachable(sc) }

RECURSIVE Ascending(_)
\* the members of a set of integers as an ascending list
Ascending(S) ==
    IF S = { } THEN << >>
    ELSE LET m == CHOOSE x \in S : \A y \in S : x <= y
         IN  << m >> \o Ascending(S \ { m })

IntList(nums) == [k \in 1..Len(nums) |-> JInt(nums[k])]

\* every set of sentence numbers, listed in ascending order
AscendingNumbers == { IntList(Ascending(S)) : S \in SUBSET (1..MaxSentences) }

\* scripts of Sentences with words
WordScripts == [1..MaxSentences -> { SentA, SentB }]

\* every list of up to MaxNumbers sentence numbers: any order, repetitions
ListedNumbers == SeqsUpTo({ JInt(k) : k \in 1..MaxSentences }, MaxNumbers)

\* scripts of 3 and 10 Sentences
ValidateScripts == { [k \in 1..n |-> SentB] : n \in { 3, 10 } }

RawElements ==
    { JInt(0), JInt(7), JInt(999), JStr(<< "3" >>), JStr(<< " ", "1", "0", " " >>),
      JStr(<< "b", "a", "d" >>), JStr(<< "3", ".", "0" >>), JFloat(5, 2),
      JInf, JNaN, JNull }

RawNumbers == SeqsUpTo(RawElements, MaxNumbers)

GoodText == << "x", "{", "J", "}", "x" >>
ResponseTexts ==
    { GoodText,
      << "x" >>,                                \* no JSON at all
      << "{", "x", "}", "x", "{", "J", "}" >>,  \* braces in the commentary
      << "}", "x", "{" >>,
      << "{", "J" >> }

Transport(th, ce, text, chunk) ==
    [throttles |-> th, client_error |-> ce, response_text |-> text,
     chunk |-> chunk]

Title == << "t" >>

Event(index) ==
    [uuid |-> "clip", index |-> index, topic |-> "topic", owner |-> "owner"]

\* scripts and answers that exercise the merge: every script the
\* Reconstitutor can return over the Sentences above, with every ascending
\* list of distinct numbers
MergeInputs ==
    /\ timestamped_script \in MergeScripts
    /\ bedrock \in { Transport(0, FALSE, GoodText, Chunk(TRUE, nums, Title)) :
                         nums \in AscendingNumbers }
    /\ event = Event("0")

\* numbers listed in any order, with repetitions
OrderInputs ==
    /\ timestamped_script \in WordScripts
    /\ bedrock \in { Transport(0, FALSE, GoodText, Chunk(TRUE, nums, Title)) :
                         nums \in ListedNumbers }
    /\ event = Event("0")

\* answers that exercise the validation of selected_numbers
ValidateInputs ==
    /\ timestamped_script \in ValidateScripts
    /\ bedrock \in { Transport(0, FALSE, GoodText, Chunk(TRUE, nums, Title)) :
                         nums \in RawNumbers }
    /\ event = Event("0")

\* transports that throttle up to once more than max_retries allows, then
\* fail or answer
ThrottleInputs ==
    /\ timestamped_script = << SentA, SentB >>
    /\ bedrock \in
           { Transport(th, ce, GoodText, Chunk(TRUE, << JInt(2), JInt(1) >>, Title)) :
                 th \in 0..(max_retries + 1), ce \in BOOLEAN }
    /\ event \in { Event(i) : i \in Indexes }

\* transports that throttle any number of times up to once more than
\* max_retries allows, and then fail, answer without JSON, or answer well
RetryInputs ==
    /\ timestamped_script = << SentA, SentB >>
    /\ bedrock \in
           { Transport(th, ce, text, Chunk(TRUE, << JInt(1) >>, Title)) :
                 th \in 0..(max_retries + 1), ce \in BOOLEAN,
                 text \in { GoodText, << "x" >> } }
    /\ event = Event("0")

\* answers with text of every shape, with and without selected_numbers
ResponseInputs ==
    /\ timestamped_script = << SentA, SentB >>
    /\ bedrock \in
           { Transport(th, FALSE, text, Chunk(has, nums, Title)) :
                 th \in { 0, 1 }, text \in ResponseTexts, has \in BOOLEAN,
                 nums \in { << >>, << JInt(1) >>, << JInt(3) >>,
                            << JInt(2), JInt(1) >> } }
    /\ event \in { Event(i) : i \in Indexes }

EmptyStore == [k \in Keys |-> NoItem]

InitSelector ==
    /\ calls = 1
    /\ invocations = 0
    /\ retry_count = 0
    /\ sleeps = << >>
    /\ raw_numbers = << >>
    /\ valid_numbers = << >>
    /\ section_data = NoResult
    /\ sel_error = ""
    /\ spc = "invoke"
    /\ now = 0

ReconIdle ==
    /\ items = << >>
    /\ pos = 0
    /\ current_sentence = << >>
    /\ sentence_start_time = None
    /\ last_end_time = None


(***************************************************************************)
(* Timeframe Consolidator: extract-timeframe/lambda_function.py.           *)
(***************************************************************************)
FrameRate == 24

RECURSIVE Digits(_)
\* the decimal digits of a natural number
Digits(n) ==
    IF n < 10 THEN << DigitChars[n + 1] >>
    ELSE Digits(n \div 10) \o << DigitChars[(n % 10) + 1] >>

\* a faulty variant of Format02: no padding
Format02Faulty(n) == Digits(n)
\* "{:02d}".format(n): at least two digits, padded with zeros
Format02(n) == IF n < 10 THEN << "0" >> \o Digits(n) ELSE Digits(n)

\* line 24: int((seconds - int(seconds)) * 24), of the ticks past the second
Frames(frac) == (frac * FrameRate) \div TicksPerSecond

\* lines 22-24: the fields of the timecode of a time in ticks
TimecodeFields(ticks) ==
    LET hours == ticks \div Sec(3600)
        rest == ticks % Sec(3600)
        minutes == rest \div Sec(60)
        seconds == rest % Sec(60)
    IN  [hours |-> hours, minutes |-> minutes,
         seconds |-> seconds \div TicksPerSecond,
         frames |-> Frames(seconds % TicksPerSecond)]

\* lines 19-25
convert_seconds_to_timecode(ticks) ==
    LET f == TimecodeFields(ticks)
    IN  Format02(f.hours) \o << ":" >> \o Format02(f.minutes) \o << ":" >>
            \o Format02(f.seconds) \o << ":" >> \o Format02(f.frames)

VARIABLES
    c_event,        \* the Consolidator's event: uuid, index
    item,           \* response.get('Item'), NoItem when there is none
    timeframes,     \* the (start, end) pairs parsed from the item, sorted
    cons_result,    \* the dict the handler returns
    cons_calls,     \* invocations of the Consolidator so far
    cpc             \* "idle" | "start" | "update" | "returned"

consVars == << c_event, item, timeframes, cons_result, cons_calls, cpc >>

\* frame.get(key): the value of the key, None (JNull) when it is absent
Get(frame, k) ==
    IF \E j \in 1..Len(frame) : frame[j].key = k
        THEN frame[CHOOSE j \in 1..Len(frame) : frame[j].key = k].value
        ELSE JNull

\* float(x) succeeds on the numbers; the exception of anything else empties
\* the list at lines 65-67
IsNumber(v) == v.kind \in { "float", "int" }
FloatTicks(v) == (v.num * TicksPerSecond) \div v.den

\* lines 52-56: the frames with both times
HasBothTimes(frame) ==
    /\ Get(frame, "start_time").kind # "null"
    /\ Get(frame, "end_time").kind # "null"

RECURSIVE ParseFrames(_)
ParseFrames(data) ==
    IF data = << >> THEN << >>
    ELSE (IF HasBothTimes(Head(data))
             THEN << << FloatTicks(Get(Head(data), "start_time")),
                        FloatTicks(Get(Head(data), "end_time")) >> >>
             ELSE << >>)
         \o ParseFrames(Tail(data))

ParseRaises(data) ==
    \E k \in 1..Len(data) :
        /\ HasBothTimes(data[k])
        /\ ~(IsNumber(Get(data[k], "start_time"))
                 /\ IsNumber(Get(data[k], "end_time")))

\* line 59: the stable sort on the start time
RECURSIVE InsertByStart(_, _)
InsertByStart(x, sorted) ==
    IF sorted = << >> THEN << x >>
    ELSE IF x[1] < Head(sorted)[1] THEN << x >> \o sorted
    ELSE << Head(sorted) >> \o InsertByStart(x, Tail(sorted))
RECURSIVE SortByStart(_)
\* a faulty variant of SortByStart: the stored order is kept
SortByStartFaulty(frames) == frames
\* line 59
SortByStart(frames) ==
    IF frames = << >> THEN << >>
    ELSE InsertByStart(frames[Len(frames)],
                       SortByStart(SubSeq(frames, 1, Len(frames) - 1)))

\* lines 47-67
ParseTimeframes(data) ==
    IF ParseRaises(data) THEN << >> ELSE SortByStart(ParseFrames(data))

RECURSIVE SumDurations(_)
SumDurations(frames) ==
    IF frames = << >> THEN 0
    ELSE (Head(frames)[2] - Head(frames)[1]) + SumDurations(Tail(frames))

\* line 84: int(sum(end - start ...)), in whole seconds
TotalDuration(frames) == TruncDiv(SumDurations(frames), TicksPerSecond)

\* lines 87-93
FormatTimeframes(frames) ==
    [k \in 1..Len(frames) |->
        [StartTimecode |-> convert_seconds_to_timecode(frames[k][1]),
         EndTimecode |-> convert_seconds_to_timecode(frames[k][2])]]

\* json.dumps(formatted_timeframes)
DumpTimecodes(formatted) ==
    [k \in 1..Len(formatted) |->
        << Pair("StartTimecode", JStr(formatted[k].StartTimecode)),
           Pair("EndTimecode", JStr(formatted[k].EndTimecode)) >>]

\* a faulty variant of ConsResult: the key is reported as 'unknown'
ConsResultFaulty(code, success, ev, duration, formatted) ==
    [statusCode |-> code, success |-> success, index |-> "unknown",
     uuid |-> "unknown", duration |-> duration, timeframes |-> formatted]
\* lines 71-81, 107-117 and 121-131: the dict the handler returns
ConsResult(code, success, ev, duration, formatted) ==
    [statusCode |-> code, success |-> success, index |-> ev.index,
     uuid |-> ev.uuid, duration |-> duration, timeframes |-> formatted]

NoConsResult == ConsResult(0, "", [uuid |-> "", index |-> ""], 0, << >>)

\* a faulty variant of UpdateItem: updatedAt is set as well
UpdateItemFaulty(it, durVal, tfVal) ==
    [it EXCEPT !.duration = durVal, !.timeframes = tfVal,
               !.updatedAt = it.updatedAt + 1]
\* lines 98-103: SET #dur = :durVal, #tf = :tfVal on the item under the key
UpdateItem(it, durVal, tfVal) ==
    [it EXCEPT !.duration = durVal, !.timeframes = tfVal]

\* the Consolidator is invoked for a key
ConsInvoke ==
    /\ cpc \in { "idle", "returned" }
    /\ cons_calls < MaxConsCalls
    /\ cons_calls' = cons_calls + 1
    /\ c_event' \in [uuid : { "clip" }, index : Indexes]
    /\ item' = NoItem
    /\ timeframes' = << >>
    /\ cons_result' = NoConsResult
    /\ cpc' = "start"
    /\ UNCHANGED store

\* lines 40-44 and 119-131: no item under the key
ConsItemNotFound ==
    /\ cpc = "start"
    /\ store[Key(c_event.uuid, c_event.index)] = NoItem
    /\ cons_result' = ConsResult(500, "false", c_event, 0, << >>)
    /\ cpc' = "returned"
    /\ UNCHANGED << c_event, item, timeframes, cons_calls, store >>

\* lines 40-81: the item is read and parsed, and holds no timeframe
ConsNoTimeframes ==
    /\ cpc = "start"
    /\ store[Key(c_event.uuid, c_event.index)] # NoItem
    /\ LET it == store[Key(c_event.uuid, c_event.index)]
       IN  /\ ParseTimeframes(it.timeframes) = << >>
           /\ item' = it
    /\ timeframes' = << >>
    /\ cons_result' = ConsResult(400, "false", c_event, 0, << >>)
    /\ cpc' = "returned"
    /\ UNCHANGED << c_event, cons_calls, store >>

\* lines 40-93: the item is read, its timeframes parsed and sorted
ConsParse ==
    /\ cpc = "start"
    /\ store[Key(c_event.uuid, c_event.index)] # NoItem
    /\ LET it == store[Key(c_event.uuid, c_event.index)]
       IN  /\ ParseTimeframes(it.timeframes) # << >>
           /\ item' = it
           /\ timeframes' = ParseTimeframes(it.timeframes)
    /\ cpc' = "update"
    /\ UNCHANGED << c_event, cons_result, cons_calls, store >>

\* lines 84-117: update_item sets duration and timeframes of the item under
\* the key (the item exists: this pipeline deletes none)
ConsUpdate ==
    /\ cpc = "update"
    /\ LET total_duration == TotalDuration(timeframes)
           formatted_timeframes == FormatTimeframes(timeframes)
           k == Key(c_event.uuid, c_event.index)
       IN  /\ store' = [store EXCEPT
                           ![k] = UpdateItem(store[k], total_duration,
                                             DumpTimecodes(formatted_timeframes))]
           /\ cons_result' = ConsResult(200, "true", c_event, total_duration,
                                        formatted_timeframes)
    /\ cpc' = "returned"
    /\ UNCHANGED << c_event, item, timeframes, cons_calls >>

ConsIdle ==
    /\ c_event = [uuid |-> "", index |-> ""]
    /\ item = NoItem
    /\ timeframes = << >>
    /\ cons_result = NoConsResult
    /\ cons_calls = 0
    /\ cpc = "idle"

(***************************************************************************)
(* convert_seconds_to_timecode on its own.                                 *)
(***************************************************************************)
VARIABLES
    tc_seconds,     \* the argument, in ticks
    tc_timecode,    \* the string returned, << >> before the call
    tcpc            \* "call" | "done"

tcVars == << tc_seconds, tc_timecode, tcpc >>

TimecodeConvert ==
    /\ tcpc = "call"
    /\ tc_timecode' = convert_seconds_to_timecode(tc_seconds)
    /\ tcpc' = "done"
    /\ UNCHANGED tc_seconds

TimecodeIdle ==
    /\ tc_seconds = 0
    /\ tc_timecode = << >>
    /\ tcpc = "done"

(***************************************************************************)
(* The inputs of the Consolidator and of the timecode conversion.          *)
(***************************************************************************)
\* 10, 10.5, 40, 90 and 120 seconds
SegmentTimes ==
    { Sec(10), Sec(10) + TicksPerSecond \div 2, Sec(40), Sec(90), Sec(120) }

\* the Segments the Selector can write: the start_time of a Segment is the
\* least start and its end_time the greatest end of Sentences that start
\* before they end; a Segment of Sentences without words has no start_time
StoredSegments ==
    { seg \in { Segment(<< "a", "." >>, st, en) :
                    st \in SegmentTimes, en \in SegmentTimes } :
          seg.start_time <= seg.end_time }
    \cup { Segment(<< >>, None, en) : en \in { None, Sec(40) } }

OtherItem ==
    Highlight([text |-> << "b", "?" >>,
               timeframes |-> << Segment(<< "b", "?" >>, Sec(90), Sec(120)) >>],
              [uuid |-> "clip", index |-> "1", topic |-> "other",
               owner |-> "owner"], 0)

\* index "0": no item, or the Highlight of a Selector run; index "1": no
\* item, or one fixed Highlight
ConsStores ==
    { [k \in Keys |-> IF k = Key("clip", "0") THEN i0 ELSE i1] :
          i0 \in { NoItem } \cup
                 { Highlight([text |-> << "a", "." >>, timeframes |-> segs],
                             [uuid |-> "clip", index |-> "0",
                              topic |-> "topic", owner |-> "owner"], 1) :
                       segs \in SeqsUpTo(StoredSegments, MaxSegments) },
          i1 \in { NoItem, OtherItem } }

\* whole seconds up to a little over 100 hours, and ticks past the second
TimecodeInputs ==
    { Sec(3600 * h + 60 * m + sec) + f :
          h \in { 0, 1, 99, 100 }, m \in { 0, 2, 59 }, sec \in { 0, 5, 59 },
          f \in { 0, 1, TicksPerSecond \div 2, TicksPerSecond - 1 } }

\* the scripts the Reconstitutor can return, of MaxPipeSentences Sentences,
\* with every ascending list of their numbers as the model's answer
PipeScripts ==
    { sc \in [1..MaxPipeSentences -> { SentA, SentB } \cup EmptySentences] :
          ReconReachable(sc) }

PipeNumbers == { IntList(Ascending(S)) : S \in SUBSET (1..MaxPipeSentences) }

PipeInputs ==
    /\ timestamped_script \in PipeScripts
    /\ bedrock \in { Transport(0, FALSE, GoodText, Chunk(TRUE, nums, Title)) :
                         nums \in PipeNumbers }
    /\ event = Event("0")

\* transports that throttle or fail before the answer
PipeTransportInputs ==
    /\ timestamped_script = << SentA, SentB >>
    /\ bedrock \in
           { Transport(th, ce, GoodText, Chunk(TRUE, << JInt(1) >>, Title)) :
                 th \in { 1, max_retries + 1 }, ce \in BOOLEAN }
    /\ event = Event("0")

SelectorIdle ==
    /\ event = [uuid |-> "", index |-> "", topic |-> "", owner |-> ""]
    /\ bedrock = Transport(0, FALSE, << >>, Chunk(FALSE, << >>, << >>))
    /\ calls = 0
    /\ invocations = 0
    /\ retry_count = 0
    /\ sleeps = << >>
    /\ raw_numbers = << >>
    /\ valid_numbers = << >>
    /\ section_data = NoResult
    /\ sel_error = ""
    /\ spc = "idle"
    /\ now = 0

(***************************************************************************)
(* Concurrent Selector invocations for one clip, one for each index: each  *)
(* is a Lambda invocation of its own, with its own event, transport        *)
(* answers and local variables; they share the highlight table.            *)
(***************************************************************************)
VARIABLES
    selectors       \* index -> the state of the invocation with that index

concVars == << selectors >>

\* the state of one invocation; timestamp is the clock read at line 107
Invocation(ev, script, transport) ==
    [event |-> ev, timestamped_script |-> script, bedrock |-> transport,
     invocations |-> 0, retry_count |-> 0, sleeps |-> << >>,
     section_data |-> NoResult, sel_error |-> "", spc |-> "invoke",
     timestamp |-> None]

ConcEvent(index) ==
    [uuid |-> "clip", index |-> index, topic |-> index, owner |-> "owner"]

\* the values datetime.now() can take at line 107
Clock == { 1, 2 }

\* lines 282-288, in the invocation with index p
ConcThrottled(p) ==
    LET self == selectors[p]
        code == ErrorCodeOf(self.bedrock, self.invocations)
    IN  /\ self.spc = "invoke"
        /\ code # ""
        /\ Retried(code, self.retry_count)
        /\ selectors' = [selectors EXCEPT
               ![p].invocations = self.invocations + 1,
               ![p].retry_count = self.retry_count + 1,
               ![p].sleeps = Append(self.sleeps, Backoff(self.retry_count + 1))]
        /\ UNCHANGED store

\* lines 289-291, in the invocation with index p
ConcRaise(p) ==
    LET self == selectors[p]
        code == ErrorCodeOf(self.bedrock, self.invocations)
    IN  /\ self.spc = "invoke"
        /\ code # ""
        /\ ~Retried(code, self.retry_count)
        /\ selectors' = [selectors EXCEPT
               ![p].invocations = self.invocations + 1,
               ![p].sel_error = code,
               ![p].spc = "raised"]
        /\ UNCHANGED store

\* lines 182-280, in the invocation with index p
ConcResponse(p) ==
    LET self == selectors[p]
        out == ProcessResponse(self.bedrock.response_text, self.bedrock.chunk,
                               self.timestamped_script)
    IN  /\ self.spc = "invoke"
        /\ ErrorCodeOf(self.bedrock, self.invocations) = ""
        /\ selectors' = [selectors EXCEPT
               ![p].invocations = self.invocations + 1,
               ![p].section_data = out.result,
               ![p].sel_error = out.error,
               ![p].spc = out.status]
        /\ UNCHANGED store

\* process_topic, lines 107-122, in the invocation with index p: put_item
\* replaces the item under the key (VideoName, Index) of the Highlight
ConcPutItem(p) ==
    LET self == selectors[p]
    IN  /\ self.spc = "returned"
        /\ \E t \in Clock :
              /\ store' = [store EXCEPT
                     ![Key(self.event.uuid, self.event.index)] =
                         Highlight(self.section_data, self.event, t)]
              /\ selectors' = [selectors EXCEPT ![p].timestamp = t,
                                                ![p].spc = "stored"]

\* the answers of the model to one invocation
ConcTransports ==
    { Transport(th, ce, text, Chunk(TRUE, nums, Title)) :
          th \in 0..MaxThrottles, ce \in BOOLEAN,
          text \in { GoodText, << "x" >> },
          nums \in { << JInt(1) >>, << JInt(2), JInt(1) >> } }

\* both invocations read the transcript of the clip: one script for both
ConcInputs ==
    \E script \in { << SentA, SentB >>, << SentB, SentA, SentB >> } :
        selectors \in [Indexes -> { Invocation(ConcEvent("0"), script, t) :
                                        t \in ConcTransports }
                                  \cup { Invocation(ConcEvent("1"), script, t) :
                                             t \in ConcTransports }]
        /\ \A i \in Indexes : selectors[i].event.index = i

ConcIdle == selectors = [i \in Indexes |-> NoItem]

(***************************************************************************)
(* Specifications.                                                         *)
(***************************************************************************)
vars == << reconVars, selVars, store, consVars, tcVars, concVars >>

\* the Reconstitutor on every transcript of up to MaxItems items
InitRecon ==
    /\ items \in SeqsUpTo(TranscriptItems, MaxItems)
    /\ pos = 0
    /\ current_sentence = << >>
    /\ sentence_start_time = None
    /\ last_end_time = None
    /\ timestamped_script = << >>
    /\ rpc = "loop"
    /\ SelectorIdle
    /\ store = EmptyStore
    /\ ConsIdle
    /\ TimecodeIdle
    /\ ConcIdle

NextRecon ==
    \/ ReconIterate /\ UNCHANGED << selVars, store, consVars, tcVars, concVars >>
    \/ ReconReturn /\ UNCHANGED << selVars, store, consVars, tcVars, concVars >>

SpecRecon == InitRecon /\ [][NextRecon]_vars

\* one Selector invocation, and its re-runs, on a script and a transport
InitSel ==
    /\ ReconIdle
    /\ rpc = "done"
    /\ (MergeInputs \/ OrderInputs \/ ValidateInputs \/ ThrottleInputs
           \/ ResponseInputs)
    /\ InitSelector
    /\ store = EmptyStore
    /\ ConsIdle
    /\ TimecodeIdle
    /\ ConcIdle

NextSel ==
    \/ SelThrottled /\ UNCHANGED << reconVars, consVars, tcVars, concVars >>
    \/ SelThrottledOut /\ UNCHANGED << reconVars, consVars, tcVars, concVars >>
    \/ SelClientError /\ UNCHANGED << reconVars, consVars, tcVars, concVars >>
    \/ SelResponse /\ UNCHANGED << reconVars, consVars, tcVars, concVars >>
    \/ SelPutItem /\ UNCHANGED << reconVars, consVars, tcVars, concVars >>
    \/ SelRetryCall /\ UNCHANGED << reconVars, consVars, tcVars, concVars >>

SpecSel == InitSel /\ [][NextSel]_vars

\* the Selector on every pattern of the transport, its steps taken to run
\* on: invoke_model returns or raises (the client has timeouts, lines 10-14),
\* time.sleep returns, and process_topic runs on to put_item
InitSelFair ==
    /\ ReconIdle
    /\ rpc = "done"
    /\ RetryInputs
    /\ InitSelector
    /\ store = EmptyStore
    /\ ConsIdle
    /\ TimecodeIdle
    /\ ConcIdle

SelStep ==
    /\ (SelThrottled \/ SelThrottledOut \/ SelClientError \/ SelResponse
           \/ SelPutItem)
    /\ UNCHANGED << reconVars, consVars, tcVars, concVars >>

SpecSelFair == InitSelFair /\ [][NextSel]_vars /\ WF_vars(SelStep)

\* Consolidator invocations on a store of Highlights
InitCons ==
    /\ ReconIdle
    /\ rpc = "idle"
    /\ timestamped_script = << >>
    /\ SelectorIdle
    /\ store \in ConsStores
    /\ ConsIdle
    /\ TimecodeIdle
    /\ ConcIdle

NextCons ==
    \/ ConsInvoke /\ UNCHANGED << reconVars, selVars, tcVars, concVars >>
    \/ ConsItemNotFound /\ UNCHANGED << reconVars, selVars, tcVars, concVars >>
    \/ ConsNoTimeframes /\ UNCHANGED << reconVars, selVars, tcVars, concVars >>
    \/ ConsParse /\ UNCHANGED << reconVars, selVars, tcVars, concVars >>
    \/ ConsUpdate /\ UNCHANGED << reconVars, selVars, tcVars, concVars >>

SpecCons == InitCons /\ [][NextCons]_vars

\* one Selector invocation for index "0", and its re-runs, with Consolidator
\* invocations for either index at any time: the two are separate Lambda
\* functions that share the highlight table only
InitPipe ==
    /\ ReconIdle
    /\ rpc = "done"
    /\ (PipeInputs \/ PipeTransportInputs)
    /\ InitSelector
    /\ store = EmptyStore
    /\ ConsIdle
    /\ TimecodeIdle
    /\ ConcIdle

NextPipe ==
    \/ SelThrottled /\ UNCHANGED << reconVars, consVars, tcVars, concVars >>
    \/ SelThrottledOut /\ UNCHANGED << reconVars, consVars, tcVars, concVars >>
    \/ SelClientError /\ UNCHANGED << reconVars, consVars, tcVars, concVars >>
    \/ SelResponse /\ UNCHANGED << reconVars, consVars, tcVars, concVars >>
    \/ SelPutItem /\ UNCHANGED << reconVars, consVars, tcVars, concVars >>
    \/ SelRetryCall /\ UNCHANGED << reconVars, consVars, tcVars, concVars >>
    \/ ConsInvoke /\ UNCHANGED << reconVars, selVars, tcVars, concVars >>
    \/ ConsItemNotFound /\ UNCHANGED << reconVars, selVars, tcVars, concVars >>
    \/ ConsNoTimeframes /\ UNCHANGED << reconVars, selVars, tcVars, concVars >>
    \/ ConsParse /\ UNCHANGED << reconVars, selVars, tcVars, concVars >>
    \/ ConsUpdate /\ UNCHANGED << reconVars, selVars, tcVars, concVars >>

SpecPipe == InitPipe /\ [][NextPipe]_vars

\* two Selector invocations for one clip, with indices "0" and "1", their
\* steps interleaved in every way
InitConc ==
    /\ ReconIdle
    /\ rpc = "idle"
    /\ timestamped_script = << >>
    /\ SelectorIdle
    /\ store = EmptyStore
    /\ ConsIdle
    /\ TimecodeIdle
    /\ ConcInputs

NextConc ==
    \/ \E p \in Indexes : ConcThrottled(p)
           /\ UNCHANGED << reconVars, selVars, consVars, tcVars >>
    \/ \E p \in Indexes : ConcRaise(p)
           /\ UNCHANGED << reconVars, selVars, consVars, tcVars >>
    \/ \E p \in Indexes : ConcResponse(p)
           /\ UNCHANGED << reconVars, selVars, consVars, tcVars >>
    \/ \E p \in Indexes : ConcPutItem(p)
           /\ UNCHANGED << reconVars, selVars, consVars, tcVars >>

SpecConc == InitConc /\ [][NextConc]_vars

\* convert_seconds_to_timecode on every input of TimecodeInputs
InitTimecode ==
    /\ ReconIdle
    /\ rpc = "idle"
    /\ timestamped_script = << >>
    /\ SelectorIdle
    /\ store = EmptyStore
    /\ ConsIdle
    /\ tc_seconds \in TimecodeInputs
    /\ tc_timecode = << >>
    /\ tcpc = "call"
    /\ ConcIdle

NextTimecode ==
    TimecodeConvert
        /\ UNCHANGED << reconVars, selVars, store, consVars, concVars >>

SpecTimecode == InitTimecode /\ [][NextTimecode]_vars


(***************************************************************************)
(* Claims about the Sentence Reconstitutor (SpecRecon).                    *)
(***************************************************************************)
\* the words of a text: split at the spaces, punctuation marks taken off
RECURSIVE SplitWords(_, _)
SplitWords(text, word) ==
    IF text = << >> THEN (IF word = << >> THEN << >> ELSE << word >>)
    ELSE IF Head(text) = " "
        THEN (IF word = << >> THEN << >> ELSE << word >>)
                 \o SplitWords(Tail(text), << >>)
    ELSE IF << Head(text) >> \in Punctuations
        THEN SplitWords(Tail(text), word)
    ELSE SplitWords(Tail(text), Append(word, Head(text)))

TextWords(text) == SplitWords(text, << >>)

RECURSIVE ScriptWords(_)
ScriptWords(script) ==
    IF script = << >> THEN << >>
    ELSE TextWords(Head(script).text) \o ScriptWords(Tail(script))

\* the contents of the Word events among its, in order
RECURSIVE InputWords(_)
InputWords(its) ==
    IF its = << >> THEN << >>
    ELSE (IF Head(its).type = "pronunciation" THEN << Head(its).content >>
                                              ELSE << >>)
             \o InputWords(Tail(its))

\* the scripts given to the Selector are of the shape the Reconstitutor
\* returns, and the loop run step by step returns what the function does
ReconReturnsReachable ==
    rpc = "done" =>
        /\ ReconReachable(timestamped_script)
        /\ timestamped_script = create_timestamped_script(items)

\* C1 (as claimed): every Sentence emitted by create_timestamped_script has
\* a non-empty text, a defined start_time and start_time <= end_time.
C1_SentencesWellFormed ==
    \A k \in 1..Len(timestamped_script) :
        /\ timestamped_script[k].text # << >>
        /\ timestamped_script[k].start_time # None
        /\ timestamped_script[k].start_time <= timestamped_script[k].end_time

\* C2: the words of the emitted Sentences, in emission order, are the Word
\* events of the input in their order: while the loop runs, together with
\* the words still accumulated; at the end, on their own (the words left
\* over were emitted as a last Sentence).
C2_WordsPreserved ==
    /\ rpc = "loop" =>
           ScriptWords(timestamped_script)
               \o TextWords(Join(<<" ">>, current_sentence))
           = InputWords(SubSeq(items, 1, pos))
    /\ rpc = "done" => ScriptWords(timestamped_script) = InputWords(items)

\* a transcript that ends without a terminator, after an earlier Sentence
C2_Witness ==
    /\ rpc = "done"
    /\ Len(items) >= 3
    /\ items[Len(items)].type = "pronunciation"
    /\ Len(timestamped_script) = 2
    /\ timestamped_script[1].text # << >>

\* the loop is about to take a punctuation item with no word accumulated
PunctuationWithoutWords ==
    /\ rpc = "loop"
    /\ pos < Len(items)
    /\ items[pos + 1].type = "punctuation"
    /\ current_sentence = << >>

\* C14 (as claimed): a punctuation item of any mark that arrives while no
\* word is accumulated emits no Sentence and leaves the accumulator, the
\* pending start time and the emitted Sentences as they are.
C14_PunctuationNoOp ==
    [][PunctuationWithoutWords =>
           UNCHANGED << current_sentence, sentence_start_time,
                        timestamped_script >>]_vars

\* what C14 states holds of the marks that are no terminators
C14_HoldsForNonTerminators ==
    [][(PunctuationWithoutWords /\ items[pos + 1].content \notin Terminators) =>
           UNCHANGED << current_sentence, sentence_start_time,
                        timestamped_script >>]_vars

(***************************************************************************)
(* Claims about the Highlight Selector (SpecSel).                          *)
(***************************************************************************)
\* the call has returned a result (and may have stored it)
HasResult == spc \in { "returned", "stored" }

StrictlyAscending(nums) == \A k \in 1..(Len(nums) - 1) : nums[k] < nums[k + 1]

\* the maximal runs lo..hi of consecutive integers of a set
MaximalRuns(S) ==
    { run \in S \X S :
          /\ run[1] <= run[2]
          /\ \A n \in run[1]..run[2] : n \in S
          /\ (run[1] - 1) \notin S
          /\ (run[2] + 1) \notin S }

\* the least and the greatest of the times of a set that are defined
MinTime(T) ==
    IF T \ { None } = { } THEN None
    ELSE CHOOSE t \in T \ { None } : \A u \in T \ { None } : t <= u
MaxTime(T) ==
    IF T \ { None } = { } THEN None
    ELSE CHOOSE t \in T \ { None } : \A u \in T \ { None } : t >= u

\* C3: for a sorted list of distinct valid indices the Segments returned are
\* the maximal runs of consecutive indices, one Segment per run and in the
\* order of the runs; the start_time of a Segment is the least start_time
\* and its end_time the greatest end_time of the Sentences of its run.
C3_SegmentsAreMaximalRuns ==
    (HasResult /\ StrictlyAscending(valid_numbers)) =>
        LET runs == MaximalRuns(Range(valid_numbers))
            segs == section_data.timeframes
            first == Ascending({ run[1] : run \in runs })
        IN  /\ Len(segs) = Cardinality(runs)
            /\ \A k \in 1..Len(segs) :
                  \E run \in runs :
                      /\ run[1] = first[k]
                      /\ segs[k].start_time =
                             MinTime({ timestamped_script[n].start_time :
                                           n \in run[1]..run[2] })
                      /\ segs[k].end_time =
                             MaxTime({ timestamped_script[n].end_time :
                                           n \in run[1]..run[2] })

\* two runs, the first of two Sentences of which the second starts first
C3_Witness ==
    /\ spc = "returned"
    /\ valid_numbers = << 1, 2, 4 >>
    /\ timestamped_script[1] = SentA
    /\ timestamped_script[2] = SentB
    /\ Len(section_data.timeframes) = 2
    /\ section_data.timeframes[1].start_time = Sec(10)
    /\ section_data.timeframes[1].end_time = Sec(120)

\* the number of places of a text where the separator ' [...] ' stands
SeparatorCount(text) ==
    Cardinality({ k \in 1..(Len(text) - 2) : SubSeq(text, k, k + 2) = Separator })

\* C4: the final text holds one ' [...] ' fewer than there are Segments.
C4_SeparatorsBetweenSegments ==
    HasResult =>
        SeparatorCount(section_data.text) = Len(section_data.timeframes) - 1

\* three Segments and two separators
C4_Witness ==
    /\ spc = "returned"
    /\ valid_numbers = << 1, 3, 5 >>
    /\ Len(section_data.timeframes) = 3
    /\ SeparatorCount(section_data.text) = 2

\* the model's answer was read and carried a selected_numbers list
Answered ==
    /\ spc \in { "returned", "stored", "raised" }
    /\ bedrock.throttles <= max_retries
    /\ ~bedrock.client_error
    /\ ParsesAsJSON(BraceSlice(bedrock.response_text))
    /\ bedrock.chunk.has_selected_numbers

\* the integer an element of selected_numbers stands for, if any: an integer
\* itself, a float cut to its integer part, a string of digits with spaces
\* around it
IntegersOf(e) ==
    CASE e.kind = "int" -> { e.num }
      [] e.kind = "float" -> { TruncDiv(e.num, e.den) }
      [] e.kind = "str" /\ IsIntLiteral(Strip(e.str)) -> { DecimalValue(Strip(e.str)) }
      [] OTHER -> { }

ExpectedValid(raw, n) ==
    { v \in 1..n : \E k \in 1..Len(raw) : v \in IntegersOf(raw[k]) }

\* C5 (as claimed): the validated numbers are the elements that coerce to an
\* integer of 1..n, and no element that does not makes the selection fail
\* while a valid index remains.
C5_ValidationDropsInvalid ==
    Answered =>
        LET expected == ExpectedValid(bedrock.chunk.selected_numbers,
                                      Len(timestamped_script))
        IN  /\ Range(valid_numbers) = expected
            /\ expected # { } => sel_error \notin { "ValueError", "OverflowError" }

\* what C5 states holds of every list that holds no infinite float
C5_HoldsWithoutInfinity ==
    (\A k \in 1..Len(bedrock.chunk.selected_numbers) :
         bedrock.chunk.selected_numbers[k].kind # "inf")
        => C5_ValidationDropsInvalid

\* the call can only fail: by the transport or by the answer
MustFail ==
    \/ bedrock.throttles > max_retries
    \/ bedrock.client_error
    \/ ~ParsesAsJSON(BraceSlice(bedrock.response_text))
    \/ ~bedrock.chunk.has_selected_numbers
    \/ ExpectedValid(bedrock.chunk.selected_numbers, Len(timestamped_script)) = { }

\* C6: the store is written only once an answer was parsed and validated
\* with at least one valid index, and then holds the Highlight of that
\* result; a call that must fail ends raised, and the store is as it was.
C6_NoPartialHighlight ==
    /\ spc # "stored" => store = EmptyStore
    /\ spc = "stored" =>
          /\ sel_error = ""
          /\ valid_numbers # << >>
          /\ \A k \in 1..Len(valid_numbers) :
                valid_numbers[k] \in 1..Len(timestamped_script)
          /\ store = [EmptyStore EXCEPT ![Key(event.uuid, event.index)] =
                          Highlight(section_data, event, now - 1)]
    /\ (MustFail /\ spc # "invoke") => (spc = "raised" /\ store = EmptyStore)

\* an answer whose every index is invalid
C6_Witness ==
    /\ spc = "raised"
    /\ sel_error = "ValueError"
    /\ raw_numbers # << >>
    /\ valid_numbers = << >>
    /\ store = EmptyStore

\* the delays 1, 2, 4, 8, 16, 16, ... in seconds
ExpectedDelay(k) == IF k <= 5 THEN << 1, 2, 4, 8, 16 >>[k] ELSE 16

SleepsAsExpected ==
    /\ Len(sleeps) = retry_count
    /\ \A k \in 1..Len(sleeps) : sleeps[k] = ExpectedDelay(k)

\* C10: the k-th sleep of a call lasts min(2^(k-1), 16) seconds; a call
\* starts with retry_count 0, and retry_count never decreases during it.
C10_BackoffDelays ==
    /\ [](SleepsAsExpected /\ (invocations = 0 => retry_count = 0))
    /\ [][\/ calls' = calls /\ retry_count' >= retry_count
          \/ calls' = calls + 1 /\ retry_count' = 0]_vars

\* seven retries, the last three at the cap
C10_Witness ==
    /\ retry_count = 7
    /\ sleeps = << 1, 2, 4, 8, 16, 16, 16 >>

\* the result extract_and_process_section returns for a list of indices
ResultOf(numbers) ==
    LET m == Merge(numbers, timestamped_script)
    IN  [text |-> FinalText(m.text_segments), timeframes |-> m.timeframes]

\* C15 (as claimed): the list that drives the merge holds every valid index
\* once, in ascending order, however often the model's list names it, and
\* the text and the Segments returned are those of the list without the
\* repetitions.
C15_ValidIndicesDeduplicated ==
    HasResult =>
        LET once == Ascending(Range(valid_numbers))
        IN  /\ valid_numbers = once
            /\ section_data.text = ResultOf(once).text
            /\ section_data.timeframes = ResultOf(once).timeframes

\* the texts of the Sentences lo..hi of the script, joined by single spaces
RunText(lo, hi) ==
    Join(<< " " >>, [k \in 1..(hi - lo + 1) |-> timestamped_script[lo + k - 1].text])

\* the Segments and the text are those of the set S of indices, in source
\* order: one Segment for each maximal run of S, the runs ascending
InSourceOrderOf(S) ==
    LET runs == MaximalRuns(S)
        first == Ascending({ run[1] : run \in runs })
        segs == section_data.timeframes
    IN  /\ Len(segs) = Cardinality(runs)
        /\ \A k \in 1..Len(segs) :
              \E run \in runs :
                  /\ run[1] = first[k]
                  /\ segs[k].text = RunText(run[1], run[2])
                  /\ segs[k].start_time =
                         MinTime({ timestamped_script[n].start_time :
                                       n \in run[1]..run[2] })
                  /\ segs[k].end_time =
                         MaxTime({ timestamped_script[n].end_time :
                                       n \in run[1]..run[2] })
        /\ section_data.text =
               Join(Separator, [k \in 1..Len(segs) |-> segs[k].text])

\* C16 (as claimed): the Segments of a result stand in strictly ascending
\* order of sentence index, and the text and the Segments are determined by
\* the set of the valid indices alone, whatever the order (and number of
\* times) the model listed them in.
C16_SourceOrderFromSetAlone ==
    HasResult => InSourceOrderOf(Range(valid_numbers))

\* what C16 states holds of the lists that name no valid index twice
C16_HoldsWithoutRepetition ==
    (HasResult /\ Cardinality(Range(valid_numbers)) = Len(valid_numbers)) =>
        InSourceOrderOf(Range(valid_numbers))

\* C11: a Selector call makes at most max_retries (30) retries, so at most
\* 31 model invocations and 30 sleeps; a call throttled on every attempt
\* ends by raising the ThrottlingException; and every call that has started
\* comes to return a result or to raise.
C11_CallTerminates ==
    /\ [](/\ retry_count <= max_retries
          /\ Len(sleeps) <= max_retries
          /\ invocations <= max_retries + 1)
    /\ []((spc # "invoke" /\ bedrock.throttles > max_retries) =>
              (spc = "raised" /\ sel_error = "ThrottlingException"))
    /\ (spc = "invoke" ~> spc \in { "returned", "stored", "raised" })

\* a call throttled on each of its 31 attempts
C11_Witness ==
    /\ spc = "raised"
    /\ sel_error = "ThrottlingException"
    /\ retry_count = max_retries
    /\ invocations = max_retries + 1

\* the exceptions a failure that is not a rate limit can leave the call with:
\* a ClientError of another code, an answer that is no JSON, that lacks
\* selected_numbers, or that holds no valid index; { } when there is none
NonThrottlingFailures ==
    IF bedrock.client_error THEN { "ClientError" }
    ELSE IF ~ParsesAsJSON(BraceSlice(bedrock.response_text))
        THEN { "JSONDecodeError" }
    ELSE IF ~bedrock.chunk.has_selected_numbers THEN { "ValueError" }
    ELSE IF ExpectedValid(bedrock.chunk.selected_numbers,
                          Len(timestamped_script)) = { }
        THEN { "ValueError", "OverflowError" }
    ELSE { }

\* C12: a call sleeps and invokes the model again only after a
\* ThrottlingException: there is one sleep per retry and one retry per
\* throttled invocation; the invocation that fails otherwise is the last of
\* the call, with no sleep after it, and its exception leaves the call.
C12_OnlyThrottlingRetried ==
    /\ Len(sleeps) = retry_count
    /\ retry_count <= bedrock.throttles
    /\ spc = "invoke" => invocations = retry_count
    /\ (spc = "raised" /\ sel_error # "ThrottlingException") =>
          /\ invocations = retry_count + 1
          /\ retry_count = bedrock.throttles
    /\ (spc # "invoke" /\ bedrock.throttles <= max_retries
           /\ NonThrottlingFailures # { }) =>
          /\ spc = "raised"
          /\ sel_error \in NonThrottlingFailures

\* another ClientError after two throttled invocations
C12_Witness ==
    /\ spc = "raised"
    /\ sel_error = "ClientError"
    /\ bedrock.throttles = 2
    /\ invocations = 3
    /\ sleeps = << 1, 2 >>

(***************************************************************************)
(* Claims about the Timeframe Consolidator (SpecCons, SpecTimecode).       *)
(***************************************************************************)
\* the (start, end) pairs, in ticks, of the frames of a stored list that
\* carry both times
RECURSIVE RetainedPairs(_)
RetainedPairs(data) ==
    IF data = << >> THEN << >>
    ELSE LET st == Get(Head(data), "start_time")
             en == Get(Head(data), "end_time")
         IN  (IF st.kind = "float" /\ en.kind = "float"
                  THEN << << st.num, en.num >> >> ELSE << >>)
             \o RetainedPairs(Tail(data))

Occurrences(x, seq) == Cardinality({ k \in 1..Len(seq) : seq[k] = x })

SamePairs(a, b) ==
    \A x \in Range(a) \cup Range(b) : Occurrences(x, a) = Occurrences(x, b)

RECURSIVE TicksOf(_)
TicksOf(pairs) ==
    IF pairs = << >> THEN 0
    ELSE TicksOf(Tail(pairs)) + Head(pairs)[2] - Head(pairs)[1]

\* d is the number of whole seconds of ticks, cut towards zero
IsWholeSecondsOf(d, ticks) ==
    IF ticks >= 0
        THEN Sec(d) <= ticks /\ ticks < Sec(d + 1)
        ELSE Sec(d - 1) < ticks /\ ticks <= Sec(d)

ConsSucceeded == cpc = "returned" /\ cons_result.success = "true"

\* C7: whatever the order of the stored Segments, the Consolidator's
\* sequence is that of the Segments with both times in ascending order of
\* start_time, each as its two timecodes, and total_duration is the sum of
\* their (end_time - start_time), cut to an integer.
C7_SortedAndSummed ==
    ConsSucceeded =>
        LET kept == RetainedPairs(item.timeframes)
        IN  /\ SamePairs(timeframes, kept)
            /\ Len(timeframes) = Len(kept)
            /\ \A k \in 1..(Len(timeframes) - 1) :
                  timeframes[k][1] <= timeframes[k + 1][1]
            /\ Len(cons_result.timeframes) = Len(timeframes)
            /\ \A k \in 1..Len(timeframes) :
                  /\ cons_result.timeframes[k].StartTimecode =
                         convert_seconds_to_timecode(timeframes[k][1])
                  /\ cons_result.timeframes[k].EndTimecode =
                         convert_seconds_to_timecode(timeframes[k][2])
            /\ IsWholeSecondsOf(cons_result.duration, TicksOf(kept))

\* the stored list [{90,120},{10,40}]: duration 60, the {10,40} entry first
C7_Witness ==
    /\ ConsSucceeded
    /\ RetainedPairs(item.timeframes) =
           << << Sec(90), Sec(120) >>, << Sec(10), Sec(40) >> >>
    /\ cons_result.duration = 60
    /\ cons_result.timeframes[1].StartTimecode =
           << "0", "0", ":", "0", "0", ":", "1", "0", ":", "0", "0" >>
    /\ cons_result.timeframes[2].StartTimecode =
           << "0", "0", ":", "0", "1", ":", "3", "0", ":", "0", "0" >>

\* the store holds no record under the requested key, or one without a
\* Segment that carries both times
NoUsableRecord ==
    LET k == Key(c_event.uuid, c_event.index)
    IN  store[k] = NoItem \/ RetainedPairs(store[k].timeframes) = << >>

\* C13: a run of the Consolidator that finds no record under its key, or a
\* record without a Segment with both times, returns a failure result that
\* carries the uuid and the index of the request, and leaves the store as
\* it is.
C13_FailureWritesNothing ==
    [][(cpc = "start" /\ NoUsableRecord) =>
           /\ cpc' = "returned"
           /\ cons_result'.success = "false"
           /\ cons_result'.statusCode \in { 400, 500 }
           /\ cons_result'.uuid = c_event.uuid
           /\ cons_result'.index = c_event.index
           /\ store' = store]_vars

\* a record whose only Segments lack a start_time: failure 400, no write
C13_Witness ==
    /\ cpc = "returned"
    /\ cons_result.statusCode = 400
    /\ cons_result.index = "0"
    /\ item # NoItem
    /\ item.duration = None
    /\ Len(item.timeframes) = 2
    /\ store[Key(c_event.uuid, c_event.index)] = item

\* C19 (as claimed): every record of the store that carries a duration has
\* a duration greater than 0.
C19_DurationPositive ==
    \A k \in Keys :
        (store[k] # NoItem /\ store[k].duration # None) => store[k].duration > 0

\* the fields of a record that the Consolidator is not to touch
SameOtherFields(a, b) ==
    /\ a.Text = b.Text
    /\ a.Question = b.Question
    /\ a.Index = b.Index
    /\ a.VideoName = b.VideoName
    /\ a.createdAt = b.createdAt
    /\ a.updatedAt = b.updatedAt
    /\ a.owner = b.owner

\* C20: the write of a successful Consolidator run leaves every record
\* under another key as it is, and in the record under the requested key
\* changes nothing but duration and timeframes; no other step of a run
\* writes to the store.
C20_UpdateChangesTwoFields ==
    [][IF cpc = "update"
           THEN LET k == Key(c_event.uuid, c_event.index)
                IN  /\ \A j \in Keys \ { k } : store'[j] = store[j]
                    /\ store[k] # NoItem
                    /\ store'[k] # NoItem
                    /\ SameOtherFields(store'[k], store[k])
           ELSE store' = store]_vars

\* the run for index "0" has succeeded: duration and timecodes are set,
\* the other fields and the record of index "1" are as they were
C20_Witness ==
    /\ ConsSucceeded
    /\ c_event.index = "0"
    /\ store[Key("clip", "1")] = OtherItem
    /\ store[Key("clip", "0")].duration = 30
    /\ store[Key("clip", "0")].timeframes = DumpTimecodes(cons_result.timeframes)
    /\ SameOtherFields(store[Key("clip", "0")], item)

(***************************************************************************)
(* Claims about concurrent Selector invocations (SpecConc).                *)
(***************************************************************************)
\* the result of the invocation with index p, run on its own inputs alone
OwnResult(p) ==
    ProcessResponse(selectors[p].bedrock.response_text,
                    selectors[p].bedrock.chunk,
                    selectors[p].timestamped_script).result

\* C18: however the steps of the invocations for the indices of a clip are
\* interleaved, the record under (clip, index) holds nothing until the
\* invocation with that index has written, and from then on the Highlight
\* of that invocation's own result, event and timestamp: no invocation
\* writes or alters the record of another.
C18_DistinctRecords ==
    \A p \in Indexes :
        /\ selectors[p].spc # "stored" => store[Key("clip", p)] = NoItem
        /\ selectors[p].spc = "stored" =>
               store[Key("clip", p)] =
                   Highlight(OwnResult(p), ConcEvent(p), selectors[p].timestamp)

\* both invocations have written, the one with index "1" first, and each
\* record holds its own, different text
C18_Witness ==
    /\ selectors["0"].spc = "stored"
    /\ selectors["1"].spc = "stored"
    /\ selectors["1"].timestamp < selectors["0"].timestamp
    /\ selectors["0"].retry_count = 1
    /\ store[Key("clip", "0")].Text # store[Key("clip", "1")].Text
    /\ store[Key("clip", "0")].Index = "0"
    /\ store[Key("clip", "1")].Index = "1"

(***************************************************************************)
(* Claims about the Selector and the Consolidator together (SpecPipe).     *)
(***************************************************************************)
\* the Consolidator has returned from a run for the Selector's key that read
\* the record as the Selector wrote it: it ran after the write, and nothing
\* else was written under the key in between
ConsolidatedAfterSelector ==
    /\ cpc = "returned"
    /\ spc = "stored"
    /\ c_event.uuid = event.uuid
    /\ c_event.index = event.index
    /\ item = Highlight(section_data, event, now - 1)

\* the (start_time, end_time) pairs of the Segments the Selector returned
SegmentPairs ==
    [k \in 1..Len(section_data.timeframes) |->
        << section_data.timeframes[k].start_time,
           section_data.timeframes[k].end_time >>]

\* the run succeeded, and the record holds the duration and the timecodes
\* of exactly the Segments the Selector wrote
DerivedFromSelector ==
    LET rec == store[Key(event.uuid, event.index)]
    IN  /\ cons_result.success = "true"
        /\ Len(timeframes) = Len(SegmentPairs)
        /\ SamePairs(timeframes, SegmentPairs)
        /\ \A k \in 1..(Len(timeframes) - 1) :
              timeframes[k][1] <= timeframes[k + 1][1]
        /\ cons_result.timeframes = FormatTimeframes(timeframes)
        /\ IsWholeSecondsOf(cons_result.duration, TicksOf(SegmentPairs))
        /\ rec.duration = cons_result.duration
        /\ rec.timeframes = DumpTimecodes(cons_result.timeframes)

\* C17 (as claimed): a Consolidator run for a key that comes after a
\* successful Selector write for that key, with no write in between,
\* succeeds, and leaves the record with the total_duration and the
\* timecodes of exactly the Segments the Selector wrote.
C17_ConsolidatorAfterSelector ==
    ConsolidatedAfterSelector => DerivedFromSelector

\* what C17 states holds when every Segment written carries both times
C17_HoldsWithBothTimes ==
    (ConsolidatedAfterSelector
        /\ \A k \in 1..Len(SegmentPairs) :
               SegmentPairs[k][1] # None /\ SegmentPairs[k][2] # None)
        => DerivedFromSelector

\* C8 (as claimed): a run of the Consolidator on a record it has already
\* consolidated succeeds, with the total_duration and the timecodes the
\* record holds.
C8_ConsolidationIdempotent ==
    (cpc = "returned" /\ item # NoItem /\ item.duration # None) =>
        /\ cons_result.success = "true"
        /\ cons_result.duration = item.duration
        /\ DumpTimecodes(cons_result.timeframes) = item.timeframes

\* the string is HH:MM:SS:FF, two digits to the field, for the time in ticks
IsTimecodeOf(tc, ticks) ==
    /\ Len(tc) = 11
    /\ tc[3] = ":" /\ tc[6] = ":" /\ tc[9] = ":"
    /\ \A k \in { 1, 2, 4, 5, 7, 8, 10, 11 } : IsDigit(tc[k])
    /\ DecimalValue(SubSeq(tc, 1, 2)) * 3600 <= ticks \div TicksPerSecond
    /\ ticks \div TicksPerSecond < (DecimalValue(SubSeq(tc, 1, 2)) + 1) * 3600
    /\ DecimalValue(SubSeq(tc, 4, 5)) = (ticks \div Sec(60)) % 60
    /\ DecimalValue(SubSeq(tc, 7, 8)) = (ticks \div TicksPerSecond) % 60
    /\ DecimalValue(SubSeq(tc, 10, 11)) < FrameRate
    /\ DecimalValue(SubSeq(tc, 10, 11)) * TicksPerSecond
           <= (ticks % TicksPerSecond) * FrameRate
    /\ (ticks % TicksPerSecond) * FrameRate
           < (DecimalValue(SubSeq(tc, 10, 11)) + 1) * TicksPerSecond

\* C9 (as claimed): for every time >= 0 the timecode is four two-digit
\* fields HH:MM:SS:FF with hours = floor(s / 3600), minutes and seconds
\* below 60 and frames = floor(fraction * 24), below 24.
C9_TimecodeAnyTime ==
    tcpc = "done" => IsTimecodeOf(tc_timecode, tc_seconds)

\* C9 (amended): the same for every time below 100 hours.
C9_TimecodeBelow100Hours ==
    (tcpc = "done" /\ tc_seconds < Sec(360000)) =>
        IsTimecodeOf(tc_timecode, tc_seconds)

\* 125.5 s is 00:02:05:12
C9_Witness ==
    /\ tcpc = "done"
    /\ tc_seconds = Sec(125) + TicksPerSecond \div 2
    /\ tc_timecode = << "0", "0", ":", "0", "2", ":", "0", "5", ":", "1", "2" >>

=============================================================================
